---- MODULE Spec2Model ----
(***************************************************************************)
(* NetEnforcer (src/src/NetEnforcer/NetEnforcer.cpp): the client table,    *)
(* the id counter and the Linux TC objects (qdiscs, classes, filters) that *)
(* the enforcer installs through the tc command line.                      *)
(*                                                                         *)
(* The kernel side is modelled by the effect of each tc command the driver *)
(* functions issue: a command that the kernel refuses (missing parent,     *)
(* busy class, handle in use, nothing to delete) changes nothing, and      *)
(* runCmd ignores the failure, as the code does.                           *)
(***************************************************************************)
EXTENDS Integers, Sequences, FiniteSets, TLC

\* ------------------------------------------------------------------ bounds

\* g_numPriorities (P): 7 by default in the source, set by -n; the model is
\* parametric in it and is checked for this many priority levels.
g_numPriorities == 2

\* g_numLevels (L): 5 in the source; the model is parametric in it and is
\* checked for this many levels.
g_numLevels == 2

\* No new client is created once g_nextId has reached MaxId.
MaxId == 3

\* Bytes of traffic the environment sends over a whole run.
MaxBytes == 2

\* The clock (seconds) does not advance past MaxTime.
MaxTime == 2

\* Longest RemoveClients batch and longest UpdateClients batch of BatchItems.
MaxBatch == 2

\* ------------------------------------------------------------- constants

g_maxRate == 125000000

\* (dst, src) address pairs that requests name
Addrs == {<<10, 20>>, <<10, 30>>}

\* ------------------------------------------------------ handle allocator

rootHTBHandle == 1

rootHTBMinor(priority) == priority + 1

rootHTBMinorHelper(priority) == priority + rootHTBMinor(g_numPriorities)

rootHTBMinorDefault == rootHTBMinorHelper(g_numPriorities)

DSMARKHandle(priority) == priority + rootHTBMinorDefault + 1

HTBBaseHandle(priority) == priority + DSMARKHandle(g_numPriorities)

\* HTBHandle with the block of an id one level short of g_numPriorities * g_numLevels
HTBHandle_ShortBlock(id, priority, level) ==
    LET offset == (id * ((g_numPriorities * g_numLevels) - 1)) + (priority * g_numLevels) + level
    IN  offset + HTBBaseHandle(g_numPriorities)

HTBHandle(id, priority, level) ==
    LET offset == (id * g_numPriorities * g_numLevels) + (priority * g_numLevels) + level
    IN  offset + HTBBaseHandle(g_numPriorities)

HTBMinor(id, level) == IF level = 0 THEN id + 2 ELSE 1

\* ------------------------------------------------------------ TC kernel
\* k = [qdiscs, classes, filters]:
\*   qdisc  [handle, parent (<<handle, minor>>, <<0, 0>> for the root), kind]
\*   class  [handle, minor, rate, ceil, burst, cburst, sent]
\*   filter [parent, prio, dst, src, flow, inst]  (inst tells identical filters apart)

HasQdisc(k, handle) == \E q \in k.qdiscs : q.handle = handle

HasClass(k, handle, minor) ==
    \E c \in k.classes : c.handle = handle /\ c.minor = minor

\* The handles of the qdiscs in hs and of every qdisc below them
RECURSIVE Below(_, _)
Below(k, hs) ==
    LET more == {q.handle : q \in {x \in k.qdiscs : x.parent[1] \in hs}}
    IN  IF more \subseteq hs THEN hs ELSE Below(k, hs \cup more)

\* The kernel without the qdiscs hs: their classes and filters go with them
Purge(k, hs) ==
    [qdiscs  |-> {q \in k.qdiscs : q.handle \notin hs},
     classes |-> {c \in k.classes : c.handle \notin hs},
     filters |-> {f \in k.filters : f.parent \notin hs}]

\* tc qdisc del dev <dev> root
removeRoot(k) == Purge(k, Below(k, {rootHTBHandle}))

\* tc qdisc del dev <dev> parent parentHandle:parentMinor handle childHandle:
removeQdisc(k, parentHandle, parentMinor, childHandle) ==
    IF \E q \in k.qdiscs : q.handle = childHandle /\ q.parent = <<parentHandle, parentMinor>>
    THEN Purge(k, Below(k, {childHandle}))
    ELSE k

\* tc class del dev <dev> classid parentHandle:minor
\* (the kernel refuses while a filter points to the class)
removeClass(k, parentHandle, minor) ==
    IF /\ HasClass(k, parentHandle, minor)
       /\ ~ \E f \in k.filters : f.parent = parentHandle /\ f.flow = minor
    THEN LET kids == {q.handle : q \in {x \in k.qdiscs : x.parent = <<parentHandle, minor>>}}
             k1   == Purge(k, Below(k, kids))
         IN  [k1 EXCEPT !.classes =
                 {c \in @ : ~(c.handle = parentHandle /\ c.minor = minor)}]
    ELSE k

\* tc filter del dev <dev> parent parentHandle: prio id+1 u32
removeFilter(k, parentHandle, id) ==
    [k EXCEPT !.filters = {f \in @ : ~(f.parent = parentHandle /\ f.prio = id + 1)}]

\* tc qdisc add dev <dev> parent parentHandle:parentMinor handle childHandle: htb default 1
addHTBQdisc(k, parentHandle, parentMinor, childHandle) ==
    IF /\ HasClass(k, parentHandle, parentMinor)
       /\ ~ HasQdisc(k, childHandle)
       /\ ~ \E q \in k.qdiscs : q.parent = <<parentHandle, parentMinor>>
    THEN [k EXCEPT !.qdiscs = @ \cup
             {[handle |-> childHandle, parent |-> <<parentHandle, parentMinor>>, kind |-> "htb"]}]
    ELSE k

\* tc class replace dev <dev> parent parentHandle: classid parentHandle:minor htb rate .. ceil ..
\* (a replaced class keeps its byte counter, a new one starts at 0)
addHTBClass(k, parentHandle, minor, rate, ceil, burst, cburst) ==
    IF \E q \in k.qdiscs : q.handle = parentHandle /\ q.kind = "htb"
    THEN LET old  == {c \in k.classes : c.handle = parentHandle /\ c.minor = minor}
             sent == IF old = {} THEN 0 ELSE (CHOOSE c \in old : TRUE).sent
         IN  [k EXCEPT !.classes = (@ \ old) \cup
                 {[handle |-> parentHandle, minor |-> minor, rate |-> rate, ceil |-> ceil,
                   burst |-> burst, cburst |-> cburst, sent |-> sent]}]
    ELSE k

\* tc filter add dev <dev> parent parentHandle: protocol ip prio id+1 u32
\*    match ip dst .. match ip src .. flowid parentHandle:minor
addFilter(k, parentHandle, id, s_dstAddr, s_srcAddr, minor) ==
    IF HasQdisc(k, parentHandle)
    THEN LET same == {f \in k.filters : /\ f.parent = parentHandle /\ f.prio = id + 1
                                        /\ f.dst = s_dstAddr /\ f.src = s_srcAddr
                                        /\ f.flow = minor}
             inst == CHOOSE n \in 1..(Cardinality(same) + 1) : \A f \in same : f.inst # n
         IN  [k EXCEPT !.filters = @ \cup
                 {[parent |-> parentHandle, prio |-> id + 1, dst |-> s_dstAddr,
                   src |-> s_srcAddr, flow |-> minor, inst |-> inst]}]
    ELSE k

\* The device with no qdisc of the enforcer on it
NoTC == [qdiscs |-> {}, classes |-> {}, filters |-> {}]

\* A class of the root HTB or of a DSMARK qdisc, as initTC creates it
RootClass(handle, minor, rate, ceil) ==
    [handle |-> handle, minor |-> minor, rate |-> rate, ceil |-> ceil,
     burst |-> 0, cburst |-> 0, sent |-> 0]

\* tc qdisc add dev <dev> root handle 1: htb default <rootHTBMinorDefault>
addRootQdisc(k) ==
    IF \E q \in k.qdiscs : q.parent = <<0, 0>> THEN k
    ELSE [k EXCEPT !.qdiscs = @ \cup
             {[handle |-> rootHTBHandle, parent |-> <<0, 0>>, kind |-> "htb"]}]

\* tc class add dev <dev> parent 1:parentMinor classid 1:minor htb rate .. ceil ..
\* (parent 1: for parentMinor 0)
addRootClass(k, parentMinor, minor, rate, ceil) ==
    IF /\ \E q \in k.qdiscs : q.handle = rootHTBHandle /\ q.kind = "htb"
       /\ parentMinor = 0 \/ HasClass(k, rootHTBHandle, parentMinor)
       /\ ~ HasClass(k, rootHTBHandle, minor)
    THEN [k EXCEPT !.classes = @ \cup {RootClass(rootHTBHandle, minor, rate, ceil)}]
    ELSE k

\* tc qdisc add dev <dev> parent 1:parentMinor handle handle: dsmark indices 2 default_index 1
\* (the qdisc comes with its class handle:1)
addDSMARKQdisc(k, parentMinor, handle) ==
    IF /\ HasClass(k, rootHTBHandle, parentMinor)
       /\ ~ HasQdisc(k, handle)
       /\ ~ \E q \in k.qdiscs : q.parent = <<rootHTBHandle, parentMinor>>
    THEN [k EXCEPT !.qdiscs = @ \cup {[handle |-> handle,
                                       parent |-> <<rootHTBHandle, parentMinor>>,
                                       kind |-> "dsmark"]},
                   !.classes = @ \cup {RootClass(handle, 1, 0, 0)}]
    ELSE k

\* The kernel after initTC: root HTB 1:, the helper chain, and per priority the
\* class 1:rootHTBMinor, its DSMARK qdisc with class :1 and the base HTB qdisc
initTC ==
    LET minRate == g_maxRate \div 100
        Prios   == 0..(g_numPriorities - 1)
        k0 == [qdiscs  |-> {[handle |-> rootHTBHandle, parent |-> <<0, 0>>, kind |-> "htb"]}
                           \cup {[handle |-> DSMARKHandle(p),
                                  parent |-> <<rootHTBHandle, rootHTBMinor(p)>>,
                                  kind |-> "dsmark"] : p \in Prios},
               classes |-> {RootClass(rootHTBHandle, rootHTBMinorHelper(0), g_maxRate, g_maxRate)}
                           \cup {RootClass(rootHTBHandle, rootHTBMinor(p), minRate,
                                           g_maxRate - p * minRate) : p \in Prios}
                           \cup {RootClass(DSMARKHandle(p), 1, 0, 0) : p \in Prios}
                           \cup {RootClass(rootHTBHandle, rootHTBMinorHelper(p + 1),
                                           minRate * (g_numPriorities + 1) - (p + 1) * minRate,
                                           g_maxRate - (p + 1) * minRate) : p \in Prios},
               filters |-> {}]
        RECURSIVE Bases(_, _)
        Bases(k, p) == IF p = g_numPriorities THEN k
                       ELSE Bases(addHTBQdisc(k, DSMARKHandle(p), 1, HTBBaseHandle(p)), p + 1)
    IN  Bases(k0, 0)

\* tc -s class show dev <dev> parent parentHandle: ; the Sent counter of
\* class parentHandle:minor, 0 when the class is not listed
getSentBytes(k, parentHandle, minor) ==
    LET found == {c \in k.classes : c.handle = parentHandle /\ c.minor = minor}
    IN  IF found = {} THEN 0 ELSE (CHOOSE c \in found : TRUE).sent

\* ------------------------------------------------------------ TC driver
\* A command as the driver functions print it: op, the handle and minor it
\* names, its third number (child handle or client id) and its parameters.

Cmd(op, h, m, x, p) == [op |-> op, h |-> h, m |-> m, x |-> x, p |-> p]

\* The kernel after command c
Apply(k, c) ==
    CASE c.op = "removeQdisc"  -> removeQdisc(k, c.h, c.m, c.x)
      [] c.op = "removeClass"  -> removeClass(k, c.h, c.m)
      [] c.op = "removeFilter" -> removeFilter(k, c.h, c.x)
      [] c.op = "addHTBQdisc"  -> addHTBQdisc(k, c.h, c.m, c.x)
      [] c.op = "addHTBClass"  -> addHTBClass(k, c.h, c.m, c.p[1], c.p[2], c.p[3], c.p[4])
      [] c.op = "addFilter"    -> addFilter(k, c.h, c.x, c.p[1], c.p[2], c.m)
      [] c.op = "removeRoot"   -> removeRoot(k)
      [] c.op = "addRootQdisc" -> addRootQdisc(k)
      [] c.op = "addRootClass" -> addRootClass(k, c.m, c.x, c.p[1], c.p[2])
      [] c.op = "addDSMARKQdisc" -> addDSMARKQdisc(k, c.m, c.x)
      [] c.op = "changeDSMARKClass" -> k    \* sets the DSCP value of class h:1

\* runCmd: the command reaches the kernel and is appended to the commands
\* issued by the request being served. s = [clients, nextId, tc, cmds].
runCmd(s, c) == [s EXCEPT !.tc = Apply(@, c), !.cmds = Append(@, c)]

\* The kernel after the commands cs, in order
RECURSIVE runCmds(_, _)
runCmds(k, cs) == IF cs = <<>> THEN k ELSE runCmds(Apply(k, Head(cs)), Tail(cs))

\* The commands of the for loop of initTC from priority on
RECURSIVE initTCLoop(_, _, _)
initTCLoop(priority, rate, ceil) ==
    IF priority < g_numPriorities
    THEN <<Cmd("addRootClass", rootHTBHandle, rootHTBMinorHelper(priority), rootHTBMinor(priority),
               <<g_maxRate \div 100, ceil>>),
           Cmd("addDSMARKQdisc", rootHTBHandle, rootHTBMinor(priority), DSMARKHandle(priority), <<>>),
           Cmd("changeDSMARKClass", DSMARKHandle(priority), 1, 0, <<>>),
           Cmd("addHTBQdisc", DSMARKHandle(priority), 1, HTBBaseHandle(priority), <<>>),
           Cmd("addRootClass", rootHTBHandle, rootHTBMinorHelper(priority),
               rootHTBMinorHelper(priority + 1),
               <<rate - (g_maxRate \div 100), ceil - (g_maxRate \div 100)>>)>>
         \o initTCLoop(priority + 1, rate - (g_maxRate \div 100), ceil - (g_maxRate \div 100))
    ELSE <<>>

\* The commands of initTC, in the order it runs them
initTCCmds ==
    <<Cmd("removeRoot", 0, 0, 0, <<>>),
      Cmd("addRootQdisc", rootHTBHandle, 0, rootHTBMinorDefault, <<>>),
      Cmd("addRootClass", rootHTBHandle, 0, rootHTBMinorHelper(0), <<g_maxRate, g_maxRate>>)>>
    \o initTCLoop(0, (g_maxRate \div 100) * (g_numPriorities + 1), g_maxRate)

\* ------------------------------------------------------- client table

\* A value-initialized struct Client, as std::map::operator[] inserts it
ZeroClient ==
    [id |-> 0, priority |-> 0, rateLimitLength |-> 0, rate |-> 0,
     lastSentBytesTime |-> 0, maxSentBytes |-> 0, prevSentBytes |-> 0, sentBytes |-> 0]

\* g_clients with addr bound to c
Put(clients, addr, c) ==
    [a \in (DOMAIN clients) \cup {addr} |-> IF a = addr THEN c ELSE clients[a]]

\* g_clients.erase(addr)
Erase(clients, addr) == [a \in (DOMAIN clients) \ {addr} |-> clients[a]]

\* ConvertTimeToSeconds (common/time.hpp): the clock of the model counts seconds
ConvertTimeToSeconds(t) == t

\* rateLimitRates[i] and rateLimitBursts[i], i counted from 0; the double is
\* converted to unsigned int where the code stores it in one
At(arr, i) == arr[i + 1]

\* updateSentBytes(c) at time t. A uint64_t is held as its two's complement
\* representative: a negative number n stands for 2^64 + n.
updateSentBytes(k, c, t) ==
    IF c.rateLimitLength > 0
    THEN LET currSentBytes == getSentBytes(k, HTBBaseHandle(c.priority), HTBMinor(c.id, 0))
         IN  [c EXCEPT !.sentBytes = @ + (currSentBytes - c.prevSentBytes),
                       !.prevSentBytes = currSentBytes,
                       !.maxSentBytes = @ + c.rate * ConvertTimeToSeconds(t - c.lastSentBytesTime),
                       !.lastSentBytesTime = t]
    ELSE c

\* AddQdiscNeeded with > for >=: a chain grown by one stage gets no qdisc
AddQdiscNeeded_OffByOne(level, oldRateLimitLength, oldPriority, priority) ==
    ((level * 2) > oldRateLimitLength) \/ (oldPriority # priority)

\* "Add qdisc if necessary": the old chain did not reach this level, or the
\* priority changed
AddQdiscNeeded(level, oldRateLimitLength, oldPriority, priority) ==
    ((level * 2) >= oldRateLimitLength) \/ (oldPriority # priority)

\* AddHTBFilterNeeded whenever there is a chain: the filter is added again
AddHTBFilterNeeded_Always(rateLimitLength, oldRateLimitLength, oldPriority, priority) ==
    rateLimitLength > 0

\* "Add HTB filter if necessary"
AddHTBFilterNeeded(rateLimitLength, oldRateLimitLength, oldPriority, priority) ==
    (rateLimitLength > 0) /\ ((oldRateLimitLength = 0) \/ (oldPriority # priority))

\* OldChainHasQdisc with a chain of two values taken to have a qdisc
OldChainHasQdisc_OffByOne(oldRateLimitLength) == oldRateLimitLength >= 2

\* The old chain had a qdisc of its own
OldChainHasQdisc(oldRateLimitLength) == oldRateLimitLength > 2

\* RemoveUnnecessaryNeeded with the old chain counted one value short
RemoveUnnecessaryNeeded_OffByOne(level, oldRateLimitLength) == ((level * 2) + 1) < oldRateLimitLength

\* "Remove unnecessary qdiscs": the loop ended at a level the old chain reached
RemoveUnnecessaryNeeded(level, oldRateLimitLength) == (level * 2) < oldRateLimitLength

\* RemoveOldHTBNeeded without the length test: a chain dropped at the same
\* priority leaves its base filter and class behind
RemoveOldHTBNeeded_NoLength(rateLimitLength, oldRateLimitLength, oldPriority, priority) ==
    (oldRateLimitLength > 0) /\ (oldPriority # priority)

\* RemoveOldHTBNeeded without the priority test: a priority change leaves the
\* old base filter and class behind
RemoveOldHTBNeeded_NoPriority(rateLimitLength, oldRateLimitLength, oldPriority, priority) ==
    (oldRateLimitLength > 0) /\ (rateLimitLength = 0)

\* "Remove old HTB filter", "Remove old HTB class"
RemoveOldHTBNeeded(rateLimitLength, oldRateLimitLength, oldPriority, priority) ==
    (oldRateLimitLength > 0) /\ ((rateLimitLength = 0) \/ (oldPriority # priority))

\* NothingToRemove never holding: the removal goes on to insert the client
NothingToRemove_Never(newClient, priority) == FALSE

\* The first test of updateClient: a removal of a client that is not in the table
NothingToRemove(newClient, priority) == newClient /\ (priority = g_numPriorities)

\* ResetPrevSentBytes left out
ResetPrevSentBytes_Never(c, oldPriority, priority) == c

\* ResetPrevSentBytes without the test of the priority
ResetPrevSentBytes_Always(c, oldPriority, priority) == [c EXCEPT !.prevSentBytes = 0]

\* "Reset prev sent bytes when switching to a new HTB class"
ResetPrevSentBytes(c, oldPriority, priority) ==
    IF oldPriority # priority THEN [c EXCEPT !.prevSentBytes = 0] ELSE c

\* RemoveRootFilterNeeded only when the new priority is a real one: a removal
\* leaves the root filter behind
RemoveRootFilterNeeded_NotOnDelete(oldPriority, priority) ==
    (oldPriority # priority) /\ (oldPriority < g_numPriorities) /\ (priority < g_numPriorities)

\* "Remove old filter for priority level": the old priority is a real one
RemoveRootFilterNeeded(oldPriority, priority) ==
    (oldPriority # priority) /\ (oldPriority < g_numPriorities)

\* "Add filter for priority level": the new priority is a real one
AddRootFilterNeeded(oldPriority, priority) ==
    (oldPriority # priority) /\ (priority < g_numPriorities)

\* HasCeil with the chain never holding a second value for a level
HasCeil_Never(level, rateLimitLength) == FALSE

\* The chain holds a second value (ceil, cburst) for the level
HasCeil(level, rateLimitLength) == ((level * 2) + 1) < rateLimitLength

\* if (cond) runCmd(c)
runCmdIf(cond, s, c) == IF cond THEN runCmd(s, c) ELSE s

\* The while loop of updateClient, from its state w = [s, level, parentHandle,
\* minor, childHandle] to the state it ends in
RECURSIVE ChainLoop(_, _, _, _, _, _, _, _)
ChainLoop(w, id, priority, rateLimitLength, rateLimitRates, rateLimitBursts, oldPriority, oldRateLimitLength) ==
    IF (w.level * 2) < rateLimitLength
    THEN LET level == w.level
             \* Add qdisc if necessary
             s1 == runCmdIf(level > 0 /\ AddQdiscNeeded(level, oldRateLimitLength, oldPriority, priority),
                            w.s, Cmd("addHTBQdisc", w.parentHandle, w.minor, w.childHandle, <<>>))
             \* Change handles
             parentHandle == IF level > 0 THEN w.childHandle ELSE w.parentHandle
             minor        == IF level > 0 THEN HTBMinor(id, level) ELSE w.minor
             childHandle  == IF level > 0 THEN HTBHandle(id, priority, level) ELSE w.childHandle
             \* Get rates/bursts
             rate   == At(rateLimitRates, level * 2)
             burst  == At(rateLimitBursts, level * 2)
             ceil   == IF HasCeil(level, rateLimitLength)
                       THEN At(rateLimitRates, (level * 2) + 1) ELSE rate
             cburst == IF HasCeil(level, rateLimitLength)
                       THEN At(rateLimitBursts, (level * 2) + 1) ELSE burst
             \* Add/modify HTB class rates
             s2 == runCmd(s1, Cmd("addHTBClass", parentHandle, minor, 0,
                                  <<rate, ceil, burst, cburst>>))
         IN  ChainLoop([s |-> s2, level |-> level + 1, parentHandle |-> parentHandle,
                        minor |-> minor, childHandle |-> childHandle],
                       id, priority, rateLimitLength, rateLimitRates, rateLimitBursts,
                       oldPriority, oldRateLimitLength)
    ELSE w

\* updateClientFilters with the HTB filter added after the root filter is switched
updateClientFilters_FilterAfterRoot(w, c, addr, priority, rateLimitLength, oldPriority, oldRateLimitLength) ==
    LET id == c.id
        \* Reset prev sent bytes when switching to a new HTB class
        c2 == ResetPrevSentBytes(c, oldPriority, priority)
        \* Remove old filter for priority level
        s2 == runCmdIf(RemoveRootFilterNeeded(oldPriority, priority),
                       w.s, Cmd("removeFilter", rootHTBHandle, 0, id, <<>>))
        \* Add filter for priority level
        s1 == runCmdIf(AddRootFilterNeeded(oldPriority, priority),
                       s2, Cmd("addFilter", rootHTBHandle, rootHTBMinor(priority), id, addr))
        s3 == runCmdIf(AddHTBFilterNeeded(rateLimitLength, oldRateLimitLength, oldPriority, priority),
                       s1, Cmd("addFilter", HTBBaseHandle(priority), HTBMinor(id, 0), id, addr))
        \* Remove old HTB chain
        s4 == runCmdIf(OldChainHasQdisc(oldRateLimitLength) /\ oldPriority # priority,
                       s3, Cmd("removeQdisc", HTBBaseHandle(oldPriority), HTBMinor(id, 0),
                               HTBHandle(id, oldPriority, 0), <<>>))
        \* else: remove unnecessary qdiscs
        s5 == runCmdIf(/\ OldChainHasQdisc(oldRateLimitLength) /\ oldPriority = priority
                       /\ RemoveUnnecessaryNeeded(w.level, oldRateLimitLength),
                       s4, Cmd("removeQdisc", w.parentHandle, w.minor, w.childHandle, <<>>))
        \* Remove old HTB filter, then old HTB class
        old == RemoveOldHTBNeeded(rateLimitLength, oldRateLimitLength, oldPriority, priority)
        s6 == runCmdIf(old, s5, Cmd("removeFilter", HTBBaseHandle(oldPriority), 0, id, <<>>))
        s7 == runCmdIf(old, s6, Cmd("removeClass", HTBBaseHandle(oldPriority), HTBMinor(id, 0), 0, <<>>))
    IN  [s7 EXCEPT !.clients = IF priority = g_numPriorities
                               THEN Erase(@, addr)   \* Remove from map
                               ELSE Put(@, addr, c2)]


\* updateClientFilters with the new root filter added before the old one is removed
updateClientFilters_AddBeforeRemove(w, c, addr, priority, rateLimitLength, oldPriority, oldRateLimitLength) ==
    LET id == c.id
        \* Add HTB filter if necessary
        s1 == runCmdIf(AddHTBFilterNeeded(rateLimitLength, oldRateLimitLength, oldPriority, priority),
                       w.s, Cmd("addFilter", HTBBaseHandle(priority), HTBMinor(id, 0), id, addr))
        \* Reset prev sent bytes when switching to a new HTB class
        c2 == ResetPrevSentBytes(c, oldPriority, priority)
        s2 == runCmdIf(AddRootFilterNeeded(oldPriority, priority),
                       s1, Cmd("addFilter", rootHTBHandle, rootHTBMinor(priority), id, addr))
        s3 == runCmdIf(RemoveRootFilterNeeded(oldPriority, priority),
                       s2, Cmd("removeFilter", rootHTBHandle, 0, id, <<>>))
        \* Remove old HTB chain
        s4 == runCmdIf(OldChainHasQdisc(oldRateLimitLength) /\ oldPriority # priority,
                       s3, Cmd("removeQdisc", HTBBaseHandle(oldPriority), HTBMinor(id, 0),
                               HTBHandle(id, oldPriority, 0), <<>>))
        \* else: remove unnecessary qdiscs
        s5 == runCmdIf(/\ OldChainHasQdisc(oldRateLimitLength) /\ oldPriority = priority
                       /\ RemoveUnnecessaryNeeded(w.level, oldRateLimitLength),
                       s4, Cmd("removeQdisc", w.parentHandle, w.minor, w.childHandle, <<>>))
        \* Remove old HTB filter, then old HTB class
        old == RemoveOldHTBNeeded(rateLimitLength, oldRateLimitLength, oldPriority, priority)
        s6 == runCmdIf(old, s5, Cmd("removeFilter", HTBBaseHandle(oldPriority), 0, id, <<>>))
        s7 == runCmdIf(old, s6, Cmd("removeClass", HTBBaseHandle(oldPriority), HTBMinor(id, 0), 0, <<>>))
    IN  [s7 EXCEPT !.clients = IF priority = g_numPriorities
                               THEN Erase(@, addr)   \* Remove from map
                               ELSE Put(@, addr, c2)]


\* updateClient from the end of its while loop on: w is the state the loop ends
\* in, c the client with its parameters updated
updateClientFilters(w, c, addr, priority, rateLimitLength, oldPriority, oldRateLimitLength) ==
    LET id == c.id
        \* Add HTB filter if necessary
        s1 == runCmdIf(AddHTBFilterNeeded(rateLimitLength, oldRateLimitLength, oldPriority, priority),
                       w.s, Cmd("addFilter", HTBBaseHandle(priority), HTBMinor(id, 0), id, addr))
        \* Reset prev sent bytes when switching to a new HTB class
        c2 == ResetPrevSentBytes(c, oldPriority, priority)
        \* Remove old filter for priority level
        s2 == runCmdIf(RemoveRootFilterNeeded(oldPriority, priority),
                       s1, Cmd("removeFilter", rootHTBHandle, 0, id, <<>>))
        \* Add filter for priority level
        s3 == runCmdIf(AddRootFilterNeeded(oldPriority, priority),
                       s2, Cmd("addFilter", rootHTBHandle, rootHTBMinor(priority), id, addr))
        \* Remove old HTB chain
        s4 == runCmdIf(OldChainHasQdisc(oldRateLimitLength) /\ oldPriority # priority,
                       s3, Cmd("removeQdisc", HTBBaseHandle(oldPriority), HTBMinor(id, 0),
                               HTBHandle(id, oldPriority, 0), <<>>))
        \* else: remove unnecessary qdiscs
        s5 == runCmdIf(/\ OldChainHasQdisc(oldRateLimitLength) /\ oldPriority = priority
                       /\ RemoveUnnecessaryNeeded(w.level, oldRateLimitLength),
                       s4, Cmd("removeQdisc", w.parentHandle, w.minor, w.childHandle, <<>>))
        \* Remove old HTB filter, then old HTB class
        old == RemoveOldHTBNeeded(rateLimitLength, oldRateLimitLength, oldPriority, priority)
        s6 == runCmdIf(old, s5, Cmd("removeFilter", HTBBaseHandle(oldPriority), 0, id, <<>>))
        s7 == runCmdIf(old, s6, Cmd("removeClass", HTBBaseHandle(oldPriority), HTBMinor(id, 0), 0, <<>>))
    IN  [s7 EXCEPT !.clients = IF priority = g_numPriorities
                               THEN Erase(@, addr)   \* Remove from map
                               ELSE Put(@, addr, c2)]

\* The client table entry with the parameters of the update stored in it
updateClientParams(c, priority, rateLimitLength, rateLimitRates) ==
    [c EXCEPT !.priority = priority,
              !.rateLimitLength = rateLimitLength,
              !.rate = IF rateLimitLength > 0 THEN At(rateLimitRates, 0) ELSE g_maxRate]

\* updateClient from its while loop on, for the client entry c as it was found
\* (or created) and brought up to date
updateClientChain(s, c, addr, priority, rateLimitLength, rateLimitRates, rateLimitBursts, oldPriority, oldRateLimitLength) ==
    updateClientFilters(
        \* Add/update HTB rate limiters
        ChainLoop([s |-> s, level |-> 0, parentHandle |-> HTBBaseHandle(priority),
                   minor |-> HTBMinor(c.id, 0), childHandle |-> HTBHandle(c.id, priority, 0)],
                  c.id, priority, rateLimitLength, rateLimitRates, rateLimitBursts,
                  oldPriority, oldRateLimitLength),
        updateClientParams(c, priority, rateLimitLength, rateLimitRates),
        addr, priority, rateLimitLength, oldPriority, oldRateLimitLength)

\* updateClient(s_dstAddr, s_srcAddr, priority, rateLimitLength, rateLimitRates,
\* rateLimitBursts) at time t, from s = [clients, nextId, tc, cmds]
updateClient(s, addr, priority, rateLimitLength, rateLimitRates, rateLimitBursts, t) ==
    IF NothingToRemove(addr \notin DOMAIN s.clients, priority) THEN s
    ELSE IF addr \notin DOMAIN s.clients
    THEN \* a new client: the next id, no old chain, no old priority
         updateClientChain([s EXCEPT !.nextId = @ + 1],
                           [ZeroClient EXCEPT !.id = s.nextId, !.lastSentBytesTime = t],
                           addr, priority, rateLimitLength, rateLimitRates, rateLimitBursts,
                           g_numPriorities, 0)
    ELSE updateClientChain(s, updateSentBytes(s.tc, s.clients[addr], t),
                           addr, priority, rateLimitLength, rateLimitRates, rateLimitBursts,
                           s.clients[addr].priority, s.clients[addr].rateLimitLength)

\* The value getOccupancy returns: (double)sentBytes / maxSentBytes capped at 1.
\* 0/0 is NaN (held as <<0, 0>>), which the comparison does not cap; a negative representative of
\* sentBytes is a value near 2^64. The quotient is held as <<num, den>>.
Quotient(sentBytes, maxSentBytes) ==
    CASE sentBytes = 0 /\ maxSentBytes = 0 -> <<0, 0>>
      [] sentBytes = 0 /\ maxSentBytes # 0 -> <<0, 1>>
      [] sentBytes < 0 \/ maxSentBytes = 0 \/ sentBytes > maxSentBytes -> <<1, 1>>
      [] OTHER -> <<sentBytes, maxSentBytes>>

\* getOccupancy(s_dstAddr, s_srcAddr) at time t: [s, occupancy]
getOccupancy(s, addr, t) ==
    LET c == IF addr \in DOMAIN s.clients THEN s.clients[addr] ELSE ZeroClient
    IN  \* Ignore clients we don't know anything about
        IF c.priority # 0
        THEN LET c1 == updateSentBytes(s.tc, c, t)
             IN  [s |-> [s EXCEPT !.clients = Put(@, addr, [c1 EXCEPT !.sentBytes = 0,
                                                                       !.maxSentBytes = 0])],
                  occupancy |-> Quotient(c1.sentBytes, c1.maxSentBytes)]
        ELSE [s |-> [s EXCEPT !.clients = Put(@, addr, c)], occupancy |-> <<0, 1>>]

\* ItemValid with > for >= on the priority: an item with priority P is applied
ItemValid_OffByOne(priority, rateLimitLength) ==
    /\ ~(priority > g_numPriorities)
    /\ ~(rateLimitLength > ((g_numLevels + 1) * 2))

\* The checks of net_enforcer_update_clients_svc on an item: it is applied
\* unless one of them logs and continues
ItemValid(priority, rateLimitLength) ==
    /\ ~(priority >= g_numPriorities)
    /\ ~(rateLimitLength > ((g_numLevels + 1) * 2))

\* UpdateClients RPC: the items of the batch from the i-th on
RECURSIVE net_enforcer_update_clients_svc(_, _, _, _)
net_enforcer_update_clients_svc(s, argp, i, t) ==
    IF i > Len(argp) THEN s
    ELSE LET clientUpdate    == argp[i]
             priority        == clientUpdate.priority
             rateLimitLength == Len(clientUpdate.rateLimitRates)
             s1 == IF ~ItemValid(priority, rateLimitLength) THEN s
                   ELSE updateClient(s, clientUpdate.client, priority, rateLimitLength,
                                     clientUpdate.rateLimitRates, clientUpdate.rateLimitBursts, t)
         IN  net_enforcer_update_clients_svc(s1, argp, i + 1, t)

\* RemoveClients RPC: the clients of the batch from the i-th on
RECURSIVE net_enforcer_remove_clients_svc(_, _, _, _)
net_enforcer_remove_clients_svc(s, argp, i, t) ==
    IF i > Len(argp) THEN s
    ELSE net_enforcer_remove_clients_svc(
             updateClient(s, argp[i], g_numPriorities, 0, <<>>, <<>>, t), argp, i + 1, t)

\* ------------------------------------------------------------- the state

VARIABLES
    g_clients,   \* the client table: (dst, src) -> Client
    g_nextId,    \* the id counter
    tc,          \* the kernel's TC objects on g_dev
    now,         \* the clock GetTime reads
    traffic,     \* bytes sent so far by the environment
    result,      \* the static result of net_enforcer_get_occupancy_svc
    scope,       \* the run observed: the update items its controller sends, and
                 \* what is recorded of it (fixed over the run)
    req,         \* the request served last           (recorded under "cmds")
    cmds,        \* the tc commands issued serving it (recorded under "cmds")
    snap,        \* the run of requests for one new client  (recorded under "snap")
    churn,       \* the run of updates of one client        (recorded under "churn")
    installed,   \* the keys an accepted update has installed and no removal has removed
    proc         \* the process: where main or term_signal stands (pc), whether the
                 \* RPC program is registered, the exit status (-1 while it runs),
                 \* the tc command whose child process is still running (inflight),
                 \* the initTC command main runs next, where main stood when the
                 \* signal arrived (from), the steps term_signal has run (trail)

vars == <<g_clients, g_nextId, tc, now, traffic, result, scope, req, cmds, snap, churn, installed, proc>>

\* The program state served to a handler, no command issued yet
Cur == [clients |-> g_clients, nextId |-> g_nextId, tc |-> tc, cmds |-> <<>>]

\* ------------------------------------------------------------ the inputs

rateLimitRates(n, v) == [i \in 1..n |-> 10 * v + i]

rateLimitBursts(n, v) == [i \in 1..n |-> 100 + 10 * v + i]

NetClientUpdate(a, p, n, v) ==
    [client |-> a, priority |-> p,
     rateLimitRates |-> rateLimitRates(n, v), rateLimitBursts |-> rateLimitBursts(n, v)]

\* The longest chain the RPC accepts
MaxChain == (g_numLevels + 1) * 2

\* The rate chains a request may carry at length n: two sets of values for
\* the chains of one stage, one for the longer ones
Variants(n) == IF n <= 2 THEN {1, 2} ELSE {1}

\* Every update item: priorities up to the invalid P, chains up to one too long
Items ==
    UNION {{NetClientUpdate(a, p, n, v) : a \in Addrs, p \in 0..g_numPriorities, v \in Variants(n)} :
           n \in 0..(MaxChain + 1)}

\* The items of a run that follows one client closely: every item for the
\* first address, two for the second (a chain of two stages at priority 0, no
\* chain at the lowest priority)
FocusItems ==
    {item \in Items :
        \/ item.client = <<10, 20>>
        \/ item.priority = 0 /\ Len(item.rateLimitRates) = 3
        \/ item.priority = g_numPriorities - 1 /\ Len(item.rateLimitRates) = 0}

\* The items of the longer batches: two valid items for the first address, one
\* of invalid priority for it, and one with too long a chain for the second
BatchItems ==
    {NetClientUpdate(<<10, 20>>, 0, 2, 1), NetClientUpdate(<<10, 20>>, 1, 3, 1),
     NetClientUpdate(<<10, 20>>, g_numPriorities, 2, 1),
     NetClientUpdate(<<10, 30>>, 1, MaxChain + 1, 1)}

\* The items of a run of updates of the first address under traffic
ChurnItems ==
    {item \in Items : item.client = <<10, 20>> /\ Len(item.rateLimitRates) \in {0, 2, 5}}

\* The items of a run that reads occupancy: the first address at every valid
\* priority, with no chain or a chain of one stage
OccItems ==
    {NetClientUpdate(<<10, 20>>, p, n, 1) : p \in 0..(g_numPriorities - 1), n \in {0, 2}}

\* The items of a run that follows the filters of two clients: the items of
\* ChurnItems for the first address, two for the second (a chain of two stages
\* at priority 0, no chain at the lowest priority)
FilterItems ==
    ChurnItems \cup {NetClientUpdate(<<10, 30>>, 0, 3, 1),
                     NetClientUpdate(<<10, 30>>, g_numPriorities - 1, 0, 1)}

\* The items of a run that follows the chain of the first address through
\* every number of stages (no chain, one, two and three stages) at every valid
\* priority, with the two items of FilterItems for the second address
ChainItems ==
    {NetClientUpdate(<<10, 20>>, p, n, 1) : p \in 0..(g_numPriorities - 1), n \in {0, 2, 3, 5}}
        \cup {NetClientUpdate(<<10, 30>>, 0, 3, 1),
              NetClientUpdate(<<10, 30>>, g_numPriorities - 1, 0, 1)}

\* The items of a run that follows the byte accounting of the first address:
\* every valid priority, no chain or a chain of one stage, and the chain at a
\* second rate for the highest priority
AcctItems ==
    {NetClientUpdate(<<10, 20>>, p, n, 1) : p \in 0..(g_numPriorities - 1), n \in {0, 2}}
        \cup {NetClientUpdate(<<10, 20>>, 0, 2, 2)}

\* The sequences over S of the lengths in 0..n
RECURSIVE SeqsUpTo(_, _)
SeqsUpTo(S, n) ==
    IF n = 0 THEN {<<>>}
    ELSE LET shorter == SeqsUpTo(S, n - 1)
         IN  shorter \cup {Append(q, x) : q \in {y \in shorter : Len(y) = n - 1}, x \in S}

\* ------------------------------------------------------ what is recorded

NoReq == [op |-> "none", argp |-> <<>>, again |-> FALSE, at |-> <<0, 0>>]

\* The request op(argp) as recorded: again tells that the request served before
\* it was the same one, at is the clock and the bytes sent when it is served
Req(op, argp) ==
    [op |-> op, argp |-> argp, again |-> (req.op = op /\ req.argp = argp), at |-> <<now, traffic>>]

NoSnap == [phase |-> "none", addr |-> <<0, 0>>, tc |-> initTC, updates |-> 0]

NoChurn == [n |-> 0, item |-> NetClientUpdate(<<0, 0>>, 0, 0, 1), b |-> 0]

\* Whether the RPC accepts the update item
Accepted(item) ==
    /\ item.priority < g_numPriorities
    /\ Len(item.rateLimitRates) <= MaxChain

\* snap after the update batch argp: the first update of a new client opens
\* a run and keeps the kernel as it was before it, further accepted updates of
\* that client continue the run
SnapUpdate(argp) ==
    IF Len(argp) # 1 THEN NoSnap
    ELSE LET item == argp[1]
         IN  IF ~Accepted(item) THEN snap
             ELSE IF item.client \notin DOMAIN g_clients
                  THEN [phase |-> "updated", addr |-> item.client, tc |-> tc, updates |-> 1]
             ELSE IF snap.phase = "updated" /\ snap.addr = item.client
                  THEN [snap EXCEPT !.updates = 2]   \* two or more
             ELSE NoSnap

\* snap after the remove batch argp: the removal of the client closes its run
SnapRemove(argp) ==
    IF Len(argp) = 1 /\ snap.phase = "updated" /\ snap.addr = argp[1]
    THEN [snap EXCEPT !.phase = "removed"]
    ELSE NoSnap

\* churn after the update batch argp: n counts how far the last accepted updates
\* go along Update(X, a); Update(X, b); Update(X, a) with a # b and one chain
ChurnUpdate(argp) ==
    IF Len(argp) # 1 THEN NoChurn
    ELSE LET item  == argp[1]
             sameX == /\ item.client = churn.item.client
                      /\ item.rateLimitRates = churn.item.rateLimitRates
                      /\ item.rateLimitBursts = churn.item.rateLimitBursts
         IN  IF ~Accepted(item) THEN NoChurn
             ELSE IF churn.n = 1 /\ sameX /\ item.priority # churn.item.priority
                  THEN [churn EXCEPT !.n = 2, !.b = item.priority]
             ELSE IF churn.n = 2 /\ sameX /\ item.priority = churn.item.priority
                  THEN [churn EXCEPT !.n = 3]
             ELSE [n |-> 1, item |-> item, b |-> 0]

\* The keys installed after the update items of argp from the i-th on
RECURSIVE InstalledUpdate(_, _, _)
InstalledUpdate(keys, argp, i) ==
    IF i > Len(argp) THEN keys
    ELSE InstalledUpdate(IF Accepted(argp[i]) THEN keys \cup {argp[i].client} ELSE keys,
                         argp, i + 1)

\* The process while svc_run serves requests: the RPC program is registered, no
\* exit status yet, no tc command in flight
Serving ==
    [pc |-> "svc_run", registered |-> TRUE, status |-> -1, inflight |-> <<>>,
     next |-> Len(initTCCmds) + 1, from |-> "none", trail |-> <<>>]

\* The program state a handler leaves after request r, and what is recorded
Commit(s, r) ==
    /\ proc.pc = "svc_run"
    /\ s.nextId <= MaxId
    /\ installed' = IF r.op = "UpdateClients" THEN InstalledUpdate(installed, r.argp, 1)
                    ELSE IF r.op = "RemoveClients" THEN installed \ {r.argp[i] : i \in 1..Len(r.argp)}
                    ELSE installed
    /\ proc' = proc
    /\ g_clients' = s.clients
    /\ g_nextId' = s.nextId
    /\ tc' = s.tc
    /\ req'  = IF scope.record = "cmds" THEN r ELSE req
    /\ cmds' = IF scope.record = "cmds" THEN s.cmds ELSE cmds
    /\ snap' = IF scope.record # "snap" THEN snap
               ELSE IF r.op = "UpdateClients" THEN SnapUpdate(r.argp)
               ELSE IF r.op = "RemoveClients" THEN SnapRemove(r.argp)
               ELSE NoSnap
    /\ churn' = IF scope.record # "churn" THEN churn
                ELSE IF r.op = "UpdateClients" THEN ChurnUpdate(r.argp)
                ELSE NoChurn

\* ---------------------------------------------------------------- actions

\* The server as main leaves it before the first request (initTC done, no
\* client), in a run of scope sc
Start(sc) ==
    /\ g_clients = << >>
    /\ g_nextId = 0
    /\ tc = initTC
    /\ now = 0
    /\ traffic = 0
    /\ result = <<0, 1>>
    /\ scope = sc
    /\ req = NoReq
    /\ cmds = <<>>
    /\ snap = NoSnap
    /\ churn = NoChurn
    /\ installed = {}
    /\ proc = Serving

\* net_enforcer_update_clients_svc on the batch argp
ServeUpdate(argp) ==
    LET s == net_enforcer_update_clients_svc(Cur, argp, 1, now)
    IN  /\ Commit(s, Req("UpdateClients", argp))
        /\ UNCHANGED <<now, traffic, result, scope>>

\* An UpdateClients request of one item
UpdateClients == \E item \in scope.items : ServeUpdate(<<item>>)

\* An UpdateClients request of any number of items up to MaxBatch
UpdateClientsBatch == \E argp \in SeqsUpTo(scope.items, MaxBatch) : ServeUpdate(argp)

\* net_enforcer_remove_clients_svc on the batch argp
ServeRemove(argp) ==
    /\ Commit(net_enforcer_remove_clients_svc(Cur, argp, 1, now), Req("RemoveClients", argp))
    /\ UNCHANGED <<now, traffic, result, scope>>

\* A RemoveClients request of one client
RemoveClients == \E a \in Addrs : ServeRemove(<<a>>)

\* A RemoveClients request of any number of clients up to MaxBatch
RemoveClientsBatch == \E argp \in SeqsUpTo(Addrs, MaxBatch) : ServeRemove(argp)

\* A GetOccupancy request (net_enforcer_get_occupancy_svc)
GetOccupancy ==
    \E a \in Addrs :
        LET r == getOccupancy(Cur, a, now)
        IN  /\ Commit(r.s, Req("GetOccupancy", <<a>>))
            /\ result' = r.occupancy
            /\ UNCHANGED <<now, traffic, scope>>

\* The minor that the filters of qdisc parent give a packet of a, 0 for none
Classify(k, parent, a) ==
    LET fs == {f \in k.filters : f.parent = parent /\ f.dst = a[1] /\ f.src = a[2]}
    IN  IF fs = {} THEN 0
        ELSE (CHOOSE f \in fs : \A g \in fs : f.prio < g.prio \/
                                               (f.prio = g.prio /\ f.inst <= g.inst)).flow

\* The environment sends one byte from src to dst of a: the root filter picks
\* the priority class, the base HTB filter picks the client's class, whose
\* Sent counter grows
Traffic ==
    \E a \in Addrs :
        LET m    == Classify(tc, rootHTBHandle, a)
            base == HTBBaseHandle(m - 1)
            leaf == Classify(tc, base, a)
        IN  /\ traffic < MaxBytes
            /\ m \in 1..g_numPriorities
            /\ HasClass(tc, base, leaf)
            /\ tc' = [tc EXCEPT !.classes =
                         {IF c.handle = base /\ c.minor = leaf
                          THEN [c EXCEPT !.sent = @ + 1] ELSE c : c \in @}]
            /\ traffic' = traffic + 1
            /\ UNCHANGED <<g_clients, g_nextId, now, result, scope, req, cmds, snap, churn, installed, proc>>

\* A second passes
Tick ==
    /\ now < MaxTime
    /\ now' = now + 1
    /\ UNCHANGED <<g_clients, g_nextId, tc, traffic, result, scope, req, cmds, snap, churn, installed, proc>>

\* main has set up the signal handler and is about to run initTC, on a device
\* with no qdisc, in a run of scope sc
Boot(sc) ==
    /\ g_clients = << >>
    /\ g_nextId = 0
    /\ tc = NoTC
    /\ now = 0
    /\ traffic = 0
    /\ result = <<0, 1>>
    /\ scope = sc
    /\ req = NoReq
    /\ cmds = <<>>
    /\ snap = NoSnap
    /\ churn = NoChurn
    /\ installed = {}
    /\ proc = [Serving EXCEPT !.pc = "initTC", !.registered = FALSE, !.next = 1]

\* runCmd in initTC: popen starts the child process of the next command
InitTCIssue ==
    /\ proc.pc = "initTC"
    /\ proc.inflight = <<>>
    /\ proc.next <= Len(initTCCmds)
    /\ proc' = [proc EXCEPT !.inflight = <<initTCCmds[proc.next]>>]
    /\ UNCHANGED <<g_clients, g_nextId, tc, now, traffic, result, scope, req, cmds, snap, churn, installed>>

\* The child process of the command in flight does its work and ends; a
\* runCmd of initTC that was reading its output returns
ChildRuns ==
    /\ proc.inflight # <<>>
    /\ tc' = Apply(tc, proc.inflight[1])
    /\ proc' = [proc EXCEPT !.inflight = <<>>,
                            !.next = IF proc.pc = "initTC" THEN @ + 1 ELSE @]
    /\ UNCHANGED <<g_clients, g_nextId, now, traffic, result, scope, req, cmds, snap, churn, installed>>

\* The signal reaches the child process as well (SIGINT from the terminal)
\* and ends it before its command is done
ChildKilled ==
    /\ proc.inflight # <<>>
    /\ proc.from # "none"
    /\ proc' = [proc EXCEPT !.inflight = <<>>]
    /\ UNCHANGED <<g_clients, g_nextId, tc, now, traffic, result, scope, req, cmds, snap, churn, installed>>

\* main after initTC: pmap_unset, svctcp_create, svc_register, svc_run
Register ==
    /\ proc.pc = "initTC"
    /\ proc.inflight = <<>>
    /\ proc.next > Len(initTCCmds)
    /\ proc' = [proc EXCEPT !.pc = "svc_run", !.registered = TRUE]
    /\ UNCHANGED <<g_clients, g_nextId, tc, now, traffic, result, scope, req, cmds, snap, churn, installed>>

\* SIGTERM or SIGINT arrives while main runs initTC (a command may be in
\* flight) or waits for a request in svc_run: term_signal starts
TermSignal ==
    /\ proc.pc \in {"initTC", "svc_run"}
    /\ proc' = [proc EXCEPT !.pc = "term_signal", !.from = proc.pc]
    /\ UNCHANGED <<g_clients, g_nextId, tc, now, traffic, result, scope, req, cmds, snap, churn, installed>>

\* The signal arrives while a handler runs the commands cs: those before the
\* j-th are done, the j-th is in flight
Interrupted(cs) ==
    /\ proc.pc = "svc_run"
    /\ \E j \in 1..Len(cs) :
           /\ tc' = runCmds(tc, SubSeq(cs, 1, j - 1))
           /\ proc' = [proc EXCEPT !.pc = "term_signal", !.from = "updateClient",
                                   !.inflight = <<cs[j]>>]
    /\ UNCHANGED <<g_clients, g_nextId, now, traffic, result, scope, req, cmds, snap, churn, installed>>

\* SIGTERM or SIGINT arrives in the middle of the command sequence of an
\* updateClient, called for an update or for a removal
TermSignalInUpdate ==
    \/ \E item \in scope.items :
           Interrupted(net_enforcer_update_clients_svc(Cur, <<item>>, 1, now).cmds)
    \/ \E a \in Addrs :
           Interrupted(net_enforcer_remove_clients_svc(Cur, <<a>>, 1, now).cmds)

\* term_signal: pmap_unset
TermUnset ==
    /\ proc.pc = "term_signal"
    /\ proc' = [proc EXCEPT !.pc = "removeRoot", !.registered = FALSE,
                            !.trail = Append(@, "pmap_unset")]
    /\ UNCHANGED <<g_clients, g_nextId, tc, now, traffic, result, scope, req, cmds, snap, churn, installed>>

\* term_signal: removeRoot (runCmd returns when tc qdisc del is done)
TermRemoveRoot ==
    /\ proc.pc = "removeRoot"
    /\ tc' = removeRoot(tc)
    /\ proc' = [proc EXCEPT !.pc = "exit", !.trail = Append(@, "removeRoot")]
    /\ UNCHANGED <<g_clients, g_nextId, now, traffic, result, scope, req, cmds, snap, churn, installed>>

\* term_signal: exit(0)
TermExit ==
    /\ proc.pc = "exit"
    /\ proc' = [proc EXCEPT !.pc = "exited", !.status = 0, !.trail = Append(@, "exit")]
    /\ UNCHANGED <<g_clients, g_nextId, tc, now, traffic, result, scope, req, cmds, snap, churn, installed>>

\* --------------------------------------------------------- specifications

\* Every request kind, nothing recorded
Next ==
    \/ UpdateClients
    \/ RemoveClients
    \/ GetOccupancy

Init == Start([items |-> FocusItems, record |-> "none"])

Spec == Init /\ [][Next]_vars

\* UpdateClients and RemoveClients requests only
NextUR ==
    \/ UpdateClients
    \/ RemoveClients

InitUR == Start([items |-> Items, record |-> "none"])

SpecUR == InitUR /\ [][NextUR]_vars

\* ... with the last request and its commands recorded
NextCmds ==
    \/ UpdateClients
    \/ RemoveClients

InitCmds == Start([items |-> FocusItems, record |-> "cmds"])

SpecCmds == InitCmds /\ [][NextCmds]_vars

\* ... with the run of requests for one new client recorded
NextSnap ==
    \/ UpdateClients
    \/ RemoveClients

InitSnap == Start([items |-> FocusItems, record |-> "snap"])

SpecSnap == InitSnap /\ [][NextSnap]_vars

\* Batches of several items, the last request and its commands recorded
NextBatch ==
    \/ UpdateClientsBatch
    \/ RemoveClientsBatch

InitBatch == Start([items |-> BatchItems, record |-> "cmds"])

SpecBatch == InitBatch /\ [][NextBatch]_vars

\* Updates and removals of one client under traffic, the run of updates recorded
NextChurn ==
    \/ UpdateClients
    \/ RemoveClients
    \/ Traffic

InitChurn == Start([items |-> ChurnItems, record |-> "churn"])

SpecChurn == InitChurn /\ [][NextChurn]_vars

\* Every request kind under traffic and passing time, the last request recorded
\* The calls of the handle functions for qdiscs: the root HTB qdisc, the DSMARK
\* and base HTB qdiscs of the priorities below P, the per-client HTB qdiscs of
\* the ids up to MaxId at the priorities below P and the levels below L
QdiscCalls ==
    {[f |-> "rootHTBHandle", id |-> 0, priority |-> 0, level |-> 0]}
        \cup {[f |-> "DSMARKHandle", id |-> 0, priority |-> p, level |-> 0] :
                  p \in 0..(g_numPriorities - 1)}
        \cup {[f |-> "HTBBaseHandle", id |-> 0, priority |-> p, level |-> 0] :
                  p \in 0..(g_numPriorities - 1)}
        \cup {[f |-> "HTBHandle", id |-> i, priority |-> p, level |-> l] :
                  i \in 0..MaxId, p \in 0..(g_numPriorities - 1), l \in 0..(g_numLevels - 1)}

\* The calls of the functions for the minors of the root HTB qdisc:
\* rootHTBMinor below P, rootHTBMinorHelper up to P
MinorCalls ==
    {[f |-> "rootHTBMinor", id |-> 0, priority |-> p, level |-> 0] :
        p \in 0..(g_numPriorities - 1)}
        \cup {[f |-> "rootHTBMinorHelper", id |-> 0, priority |-> p, level |-> 0] :
                  p \in 0..g_numPriorities}

\* The value the call returns
Call(c) ==
    CASE c.f = "rootHTBHandle"      -> rootHTBHandle
      [] c.f = "DSMARKHandle"       -> DSMARKHandle(c.priority)
      [] c.f = "HTBBaseHandle"      -> HTBBaseHandle(c.priority)
      [] c.f = "HTBHandle"          -> HTBHandle(c.id, c.priority, c.level)
      [] c.f = "rootHTBMinor"       -> rootHTBMinor(c.priority)
      [] c.f = "rootHTBMinorHelper" -> rootHTBMinorHelper(c.priority)

\* Before the first request, two handle functions (or two functions for root
\* minors) are evaluated and their values kept side by side; the run ends there
HandlePair ==
    \E calls \in {QdiscCalls, MinorCalls} : \E x \in calls, y \in calls :
        /\ proc.pc = "svc_run"
        /\ req = NoReq
        /\ proc' = [proc EXCEPT !.pc = "handles", !.trail = <<x, y, Call(x), Call(y)>>]
        /\ UNCHANGED <<g_clients, g_nextId, tc, now, traffic, result, scope, req, cmds, snap, churn, installed>>

NextProbe ==
    \/ HandlePair
    \/ UpdateClients
    \/ RemoveClients

InitProbe == Start([items |-> FilterItems, record |-> "cmds"])

SpecProbe == InitProbe /\ [][NextProbe]_vars

NextFilters ==
    \/ UpdateClients
    \/ RemoveClients

InitFilters == Start([items |-> FilterItems, record |-> "cmds"])

SpecFilters == InitFilters /\ [][NextFilters]_vars

NextChain ==
    \/ UpdateClients
    \/ RemoveClients

InitChain == Start([items |-> ChainItems, record |-> "cmds"])

SpecChain == InitChain /\ [][NextChain]_vars

NextAcct ==
    \/ UpdateClients
    \/ RemoveClients
    \/ Traffic
    \/ Tick

InitAcct == Start([items |-> AcctItems, record |-> "cmds"])

SpecAcct == InitAcct /\ [][NextAcct]_vars

NextOcc ==
    \/ UpdateClients
    \/ RemoveClients
    \/ GetOccupancy
    \/ Traffic
    \/ Tick

InitOcc == Start([items |-> OccItems, record |-> "cmds"])

SpecOcc == InitOcc /\ [][NextOcc]_vars

\* The process from the start of initTC on, with a termination signal at any point
NextSignal ==
    \/ InitTCIssue
    \/ ChildRuns
    \/ ChildKilled
    \/ Register
    \/ UpdateClients
    \/ RemoveClients
    \/ TermSignal
    \/ TermSignalInUpdate
    \/ TermUnset
    \/ TermRemoveRoot
    \/ TermExit

InitSignal == Boot([items |-> ChurnItems, record |-> "none"])

SpecSignal == InitSignal /\ [][NextSignal]_vars

\* ------------------------------------------------------------------ claims

Prios == 0..(g_numPriorities - 1)

\* The stages of a chain of n values: ceil(n/2)
Stages(n) == (n + 1) \div 2

\* The filters of qdisc parent that match the (dst, src) of a
FiltersFor(parent, a) ==
    {f \in tc.filters : f.parent = parent /\ f.dst = a[1] /\ f.src = a[2]}

\* The class of level k of the chain of client id at priority pri, as <<handle, minor>>
ChainClass(id, pri, k) ==
    IF k = 0 THEN <<HTBBaseHandle(pri), id + 2>> ELSE <<HTBHandle(id, pri, k - 1), 1>>

\* The qdisc that holds the class of level k >= 1: attached under the class of level k-1
ChainQdisc(id, pri, k) ==
    [handle |-> HTBHandle(id, pri, k - 1), parent |-> ChainClass(id, pri, k - 1), kind |-> "htb"]

\* The qdisc handles of initTC: the root, the DSMARK and the base HTB qdiscs
InitHandles ==
    {rootHTBHandle} \cup {DSMARKHandle(p) : p \in Prios} \cup {HTBBaseHandle(p) : p \in Prios}

\* The classes in the kernel that are not initTC's: those of the base HTB
\* qdiscs and of the per-client qdiscs
ClientClasses ==
    {c \in tc.classes : c.handle \notin ({rootHTBHandle} \cup {DSMARKHandle(p) : p \in Prios})}

\* The classes of the chains of client id, at any priority
ClassesOf(id) ==
    {c \in ClientClasses :
        \/ c.minor = id + 2 /\ c.handle \in {HTBBaseHandle(p) : p \in Prios}
        \/ c.handle \in {HTBHandle(id, p, l) : p \in Prios, l \in 0..(g_numLevels - 1)}}

\* C1: for every entry of the client table with priority < P the kernel holds
\* exactly one filter on the root HTB qdisc matching the entry's (dst, src); it
\* has prio id+1 and flow 1:rootHTBMinor(priority).
C1_RootFilter ==
    \A a \in DOMAIN g_clients :
        LET c == g_clients[a]
        IN  c.priority < g_numPriorities =>
                /\ Cardinality(FiltersFor(rootHTBHandle, a)) = 1
                /\ \A f \in FiltersFor(rootHTBHandle, a) :
                       f.prio = c.id + 1 /\ f.flow = rootHTBMinor(c.priority)

\* C2: for every client with rateLimitLength n > 0 the kernel holds exactly one
\* filter on HTBBaseHandle(priority) matching its (dst, src), with flow id+2, and
\* a chain of exactly ceil(n/2) classes: the level-0 class
\* HTBBaseHandle(priority):(id+2) and, for each level k in [1, ceil(n/2)), the
\* qdisc HTBHandle(id, priority, k-1) under the class of level k-1, holding class :1.
C2_Chain ==
    \A a \in DOMAIN g_clients :
        LET c == g_clients[a]
            n == c.rateLimitLength
        IN  n > 0 =>
                /\ Cardinality(FiltersFor(HTBBaseHandle(c.priority), a)) = 1
                /\ \A f \in FiltersFor(HTBBaseHandle(c.priority), a) :
                       f.prio = c.id + 1 /\ f.flow = HTBMinor(c.id, 0)
                /\ \A k \in 0..(Stages(n) - 1) :
                       /\ HasClass(tc, ChainClass(c.id, c.priority, k)[1],
                                   ChainClass(c.id, c.priority, k)[2])
                       /\ k >= 1 => ChainQdisc(c.id, c.priority, k) \in tc.qdiscs
                /\ Cardinality(ClassesOf(c.id)) = Stages(n)

\* C2's case: a client with the longest chain, (L+1)*2 values, is installed
C2_Witness ==
    \E a \in DOMAIN g_clients :
        /\ g_clients[a].rateLimitLength = MaxChain
        /\ Cardinality(ClassesOf(g_clients[a].id)) = g_numLevels + 1

\* C3: every filter, every class of a base or per-client qdisc and every
\* per-client qdisc in the kernel belongs to a client in the table, sits under
\* that client's current priority and lies within its current chain depth.
C3_NoStranded ==
    /\ \A f \in tc.filters :
          \E a \in DOMAIN g_clients :
              LET c == g_clients[a]
              IN  /\ f.dst = a[1] /\ f.src = a[2] /\ f.prio = c.id + 1
                  /\ \/ f.parent = rootHTBHandle /\ f.flow = rootHTBMinor(c.priority)
                     \/ /\ c.rateLimitLength > 0
                        /\ f.parent = HTBBaseHandle(c.priority)
                        /\ f.flow = HTBMinor(c.id, 0)
    /\ \A cl \in ClientClasses :
          \E a \in DOMAIN g_clients :
              LET c == g_clients[a]
              IN  \E k \in 0..(Stages(c.rateLimitLength) - 1) :
                      <<cl.handle, cl.minor>> = ChainClass(c.id, c.priority, k)
    /\ \A q \in tc.qdiscs :
          q.handle \notin InitHandles =>
              \E a \in DOMAIN g_clients :
                  LET c == g_clients[a]
                  IN  \E k \in 1..(Stages(c.rateLimitLength) - 1) :
                          q = ChainQdisc(c.id, c.priority, k)

\* C5: any two distinct table entries have different ids, hence different
\* level-0 minors, and no entry holds an id the counter has yet to hand out
\* (so that no id is handed out twice).
C5_UniqueIds ==
    /\ \A a, b \in DOMAIN g_clients :
          a # b => /\ g_clients[a].id # g_clients[b].id
                   /\ HTBMinor(g_clients[a].id, 0) # HTBMinor(g_clients[b].id, 0)
    /\ \A a \in DOMAIN g_clients : g_clients[a].id < g_nextId

\* C3's case: an update that changed the priority of a client with a chain of
\* several stages has removed the old chain, filter and class
C3_Witness ==
    /\ req.op = "UpdateClients"
    /\ \E i \in 1..Len(cmds) : cmds[i].op = "removeQdisc"
    /\ \E i \in 1..Len(cmds) : cmds[i].op = "removeClass"
    /\ \E i \in 1..Len(cmds) : cmds[i].op = "addHTBQdisc"
    /\ Cardinality(DOMAIN g_clients) = 2

\* C4: when a run of one or more accepted updates of a client that was not in
\* the table ends with its removal, the kernel's filters, classes and qdiscs
\* are exactly those before the first update, and the client is not in the table.
C4_RemoveRestores ==
    snap.phase = "removed" => /\ tc = snap.tc
                              /\ snap.addr \notin DOMAIN g_clients

\* C4's case: a client was created, updated again and removed while another
\* client with a chain stayed installed
C4_Witness ==
    /\ snap.phase = "removed"
    /\ snap.updates = 2
    /\ snap.tc # initTC
    /\ g_nextId >= 2

\* C6: when the accepted update X is served right after the same X, the
\* client's id, priority, rateLimitLength and rate stay as they were, and the
\* commands issued are one addHTBClass per level of the chain, in order, and
\* nothing else.
C6_Idempotent ==
    [][ (/\ req'.op = "UpdateClients" /\ req'.again
         /\ Len(req'.argp) = 1 /\ Accepted(req'.argp[1]))
        => LET a == req'.argp[1].client
               n == Len(req'.argp[1].rateLimitRates)
           IN  /\ a \in DOMAIN g_clients /\ a \in DOMAIN g_clients'
               /\ g_clients'[a].id = g_clients[a].id
               /\ g_clients'[a].priority = g_clients[a].priority
               /\ g_clients'[a].rateLimitLength = g_clients[a].rateLimitLength
               /\ g_clients'[a].rate = g_clients[a].rate
               /\ Len(cmds') = Stages(n)
               /\ \A i \in 1..Len(cmds') :
                      /\ cmds'[i].op = "addHTBClass"
                      /\ <<cmds'[i].h, cmds'[i].m>> =
                             ChainClass(g_clients[a].id, g_clients[a].priority, i - 1)
      ]_vars

\* C6's case: an update of a chain of several stages was served twice in a row
C6_Witness ==
    /\ req.op = "UpdateClients" /\ req.again
    /\ Accepted(req.argp[1])
    /\ Len(cmds) >= 2
    /\ \A i \in 1..Len(cmds) : cmds[i].op = "addHTBClass"

\* The kernel objects that carry the id of a client: the filters with prio id+1,
\* the classes and the qdiscs of its chains (the byte counters left out)
ObjectsOf(k, id) ==
    LET own == {HTBHandle(id, p, l) : p \in Prios, l \in 0..(g_numLevels - 1)}
    IN  [filters |-> {f \in k.filters : f.prio = id + 1},
         classes |-> {[c EXCEPT !.sent = 0] : c \in
                         {x \in k.classes :
                             \/ x.minor = id + 2 /\ x.handle \in {HTBBaseHandle(p) : p \in Prios}
                             \/ x.handle \in own}},
         qdiscs  |-> {q \in k.qdiscs : q.handle \in own}]

\* What a single update by item produces for a new client that gets this id
SingleUpdate(id, item) ==
    ObjectsOf(updateClient([clients |-> << >>, nextId |-> id, tc |-> initTC, cmds |-> <<>>],
                           item.client, item.priority, Len(item.rateLimitRates),
                           item.rateLimitRates, item.rateLimitBursts, 0).tc, id)

\* C7: after Update(X, a); Update(X, b); Update(X, a) with a # b the kernel holds
\* for the client exactly the filters, classes and qdiscs of a single
\* Update(X, a), nothing under HTBBaseHandle(b) and no filter to
\* 1:rootHTBMinor(b); prevSentBytes is 0 after each of the two switches.
C7_Churn ==
    churn.n >= 2 =>
        LET a == churn.item.client
            c == g_clients[a]
        IN  /\ a \in DOMAIN g_clients
            /\ c.prevSentBytes = 0
            /\ churn.n = 3 =>
                   /\ ObjectsOf(tc, c.id) = SingleUpdate(c.id, churn.item)
                   /\ \A f \in tc.filters :
                          f.prio = c.id + 1 =>
                              /\ f.parent # HTBBaseHandle(churn.b)
                              /\ ~(f.parent = rootHTBHandle /\ f.flow = rootHTBMinor(churn.b))
                   /\ \A cl \in ClassesOf(c.id) :
                          /\ cl.handle # HTBBaseHandle(churn.b)
                          /\ \A l \in 0..(g_numLevels - 1) : cl.handle # HTBHandle(c.id, churn.b, l)

\* C7's case: the three updates were served for a chain of several stages, and
\* the client's class had counted traffic
C7_Witness ==
    /\ churn.n = 3
    /\ Len(churn.item.rateLimitRates) > 2
    /\ traffic > 0
    /\ g_clients[churn.item.client].sentBytes > 0

\* C8: for every client with rateLimitLength 0 the kernel holds no filter with
\* prio id+1 on any base HTB qdisc, no class HTBBaseHandle(p):(id+2) and no
\* per-client HTB qdisc, for every priority p; its only kernel object is the
\* root filter.
C8_EmptyChain ==
    \A a \in DOMAIN g_clients :
        LET c == g_clients[a]
        IN  c.rateLimitLength = 0 =>
                /\ \A p \in Prios :
                       /\ ~ \E f \in tc.filters : f.parent = HTBBaseHandle(p) /\ f.prio = c.id + 1
                       /\ ~ HasClass(tc, HTBBaseHandle(p), c.id + 2)
                       /\ \A l \in 0..(g_numLevels - 1) : ~ HasQdisc(tc, HTBHandle(c.id, p, l))
                /\ ObjectsOf(tc, c.id).classes = {}
                /\ ObjectsOf(tc, c.id).qdiscs = {}
                /\ \A f \in ObjectsOf(tc, c.id).filters \cup
                             {g \in tc.filters : g.dst = a[1] /\ g.src = a[2]} :
                       f.parent = rootHTBHandle
                /\ Cardinality(ObjectsOf(tc, c.id).filters) = 1

\* C8's case: a client that had a chain of several stages was updated to an
\* empty chain, which removed the chain's qdisc, filter and class
C8_Witness ==
    /\ req.op = "UpdateClients"
    /\ Len(req.argp) = 1
    /\ Len(req.argp[1].rateLimitRates) = 0
    /\ req.argp[1].client \in DOMAIN g_clients
    /\ \E i \in 1..Len(cmds) : cmds[i].op = "removeQdisc"
    /\ \E i \in 1..Len(cmds) : cmds[i].op = "removeClass"

\* The items of argp from the i-th on, applied one by one, the items that are
\* not accepted left out
RECURSIVE OneByOne(_, _, _, _)
OneByOne(s, argp, i, t) ==
    IF i > Len(argp) THEN s
    ELSE IF Accepted(argp[i])
         THEN OneByOne(updateClient(s, argp[i].client, argp[i].priority,
                                    Len(argp[i].rateLimitRates), argp[i].rateLimitRates,
                                    argp[i].rateLimitBursts, t), argp, i + 1, t)
         ELSE OneByOne(s, argp, i + 1, t)

\* C9: an UpdateClients batch leaves the table, the id counter and the kernel
\* as its accepted items leave them when applied one by one in array order; an
\* item with priority >= P or a chain longer than (L+1)*2 changes nothing.
C9_Batch ==
    [][ req'.op = "UpdateClients"
        => LET s == OneByOne(Cur, req'.argp, 1, now)
           IN  /\ g_clients' = s.clients
               /\ g_nextId' = s.nextId
               /\ tc' = s.tc
               /\ cmds' = s.cmds
               /\ (\A i \in 1..Len(req'.argp) : ~Accepted(req'.argp[i]))
                     => /\ UNCHANGED <<g_clients, g_nextId, tc>>
                        /\ cmds' = <<>>
      ]_vars

\* C9's case: a batch whose first item is invalid and whose second is valid
\* was served, and the second item was applied
C9_Witness ==
    /\ req.op = "UpdateClients"
    /\ Len(req.argp) >= 2
    /\ ~Accepted(req.argp[1])
    /\ Accepted(req.argp[2])
    /\ req.argp[2].client \in DOMAIN g_clients
    /\ cmds # <<>>

\* C10: a RemoveClients request whose clients are all absent from the table
\* creates no entry, does not advance the id counter and issues no command.
C10_RemoveAbsent ==
    [][ (/\ req'.op = "RemoveClients"
         /\ \A i \in 1..Len(req'.argp) : req'.argp[i] \notin DOMAIN g_clients)
        => /\ UNCHANGED <<g_clients, g_nextId, tc>>
           /\ cmds' = <<>>
      ]_vars

\* C10's case: a removal of absent clients was served while another client
\* was installed
C10_Witness ==
    /\ req.op = "RemoveClients"
    /\ Len(req.argp) >= 1
    /\ \A i \in 1..Len(req.argp) : req.argp[i] \notin DOMAIN g_clients
    /\ cmds = <<>>
    /\ g_clients # << >>
    /\ g_nextId > 0

\* The root filters of the (dst, src) of a in kernel k
RootFiltersOf(k, a) ==
    {f \in k.filters : f.parent = rootHTBHandle /\ f.dst = a[1] /\ f.src = a[2]}

\* C11: a GetOccupancy for a (dst, src) with no entry in the client table
\* returns 0 and leaves the table as it is, with no entry for a key that no
\* update installed; an accepted update of a key that no update installed
\* takes the next id from the counter and installs the root filter.
C11_UnknownKey ==
    [][ /\ (req'.op = "GetOccupancy" /\ req'.argp[1] \notin DOMAIN g_clients)
            => /\ result' = <<0, 1>>
               /\ g_clients' = g_clients
               /\ DOMAIN g_clients' = installed'
        /\ (/\ req'.op = "UpdateClients" /\ Len(req'.argp) = 1
            /\ Accepted(req'.argp[1]) /\ req'.argp[1].client \notin installed)
            => LET a == req'.argp[1].client
               IN  /\ g_nextId' = g_nextId + 1
                   /\ g_clients'[a].id = g_nextId
                   /\ \E f \in RootFiltersOf(tc', a) :
                          f.prio = g_nextId + 1 /\ f.flow = rootHTBMinor(req'.argp[1].priority)
      ]_vars

\* C12: the value GetOccupancy returned last is a number in [0, 1]: the
\* quotient <<num, den>> has den > 0 and 0 <= num <= den.
C12_Range ==
    /\ result[2] > 0
    /\ 0 <= result[1]
    /\ result[1] <= result[2]

\* C13: when GetOccupancy for an installed client is served right after the
\* same GetOccupancy, with the clock and the bytes sent as they were, it
\* returns 0, and the first call had left sentBytes = 0 and maxSentBytes = 0.
C13_ZeroTimeRead ==
    [][ (/\ req'.op = "GetOccupancy" /\ req'.again /\ req'.at = req.at
         /\ req'.argp[1] \in installed /\ req'.argp[1] \in DOMAIN g_clients)
        => /\ result' = <<0, 1>>
           /\ g_clients[req'.argp[1]].sentBytes = 0
           /\ g_clients[req'.argp[1]].maxSentBytes = 0
      ]_vars

\* C14: term_signal unregisters the RPC program, then removes the root qdisc,
\* then exits with status 0: removeRoot never runs while the program is
\* registered, the process has exited only after pmap_unset, removeRoot and
\* exit(0) in this order, and once it has exited the device holds no qdisc,
\* class or filter.
C14_Shutdown ==
    /\ proc.pc \in {"removeRoot", "exit", "exited"} => ~proc.registered
    /\ proc.pc = "exited" => /\ proc.trail = <<"pmap_unset", "removeRoot", "exit">>
                             /\ proc.status = 0
                             /\ tc = NoTC

\* The same for a signal that arrives once svc_run serves, in the middle of the
\* commands of an updateClient included
ShutdownWhileServing ==
    proc.from \in {"svc_run", "updateClient"} => C14_Shutdown

\* The group of a command in the order of updateClient: 1 the chain (qdisc add,
\* class replace), 2 the base filter add, 3 the root filter removal, 4 the root
\* filter add, 5 the qdisc removal, 6 the old base filter removal, 7 the old
\* level-0 class removal
CmdGroup(c) ==
    CASE c.op \in {"addHTBQdisc", "addHTBClass"}            -> 1
      [] c.op = "addFilter" /\ c.h # rootHTBHandle          -> 2
      [] c.op = "removeFilter" /\ c.h = rootHTBHandle       -> 3
      [] c.op = "addFilter" /\ c.h = rootHTBHandle          -> 4
      [] c.op = "removeQdisc"                               -> 5
      [] c.op = "removeFilter" /\ c.h # rootHTBHandle       -> 6
      [] c.op = "removeClass"                               -> 7

\* The level whose class the qdisc of handle h holds, 0 for a base HTB qdisc
LevelIn(h) ==
    IF h < HTBBaseHandle(g_numPriorities) THEN 0
    ELSE ((h - HTBBaseHandle(g_numPriorities)) % g_numLevels) + 1

\* The place of a chain command: level by level, the qdisc add before the class replace
ChainStep(c) ==
    IF c.op = "addHTBQdisc" THEN 2 * LevelIn(c.x) ELSE 2 * LevelIn(c.h) + 1

\* C15: the commands of one updateClient call come group by group: the chain
\* level by level in increasing order, each qdisc add followed at once by the
\* class replace in that qdisc; then the base filter add, on
\* HTBBaseHandle(priority); the root filter removal; the root filter add; the
\* removeQdisc; the old base filter removal; the old level-0 class removal.
C15_Order ==
    (req.op \in {"UpdateClients", "RemoveClients"} /\ Len(req.argp) = 1) =>
        /\ \A i, j \in 1..Len(cmds) :
               i < j => \/ CmdGroup(cmds[i]) < CmdGroup(cmds[j])
                        \/ /\ CmdGroup(cmds[i]) = 1 /\ CmdGroup(cmds[j]) = 1
                           /\ ChainStep(cmds[i]) < ChainStep(cmds[j])
        /\ \A i \in 1..Len(cmds) :
               /\ cmds[i].op = "addHTBQdisc" =>
                      /\ i < Len(cmds)
                      /\ cmds[i + 1].op = "addHTBClass"
                      /\ cmds[i + 1].h = cmds[i].x
               /\ (CmdGroup(cmds[i]) = 2 /\ req.op = "UpdateClients") =>
                      cmds[i].h = HTBBaseHandle(req.argp[1].priority)

\* C15's case: one update that switched the priority of a client with a chain
\* of several stages issued commands of every group
C15_Witness ==
    /\ req.op = "UpdateClients"
    /\ Len(req.argp) = 1
    /\ {CmdGroup(cmds[i]) : i \in 1..Len(cmds)} = 1..7
    /\ \E i \in 1..Len(cmds) : cmds[i].op = "addHTBQdisc"

\* C16: every removeFilter command of a request for one client removes
\* exactly one filter of the kernel as it is when the command runs; the filter
\* matches the client's (dst, src), was installed before the request and is
\* not the one the request adds for the client's new priority.
C16_RemoveFilter ==
    [][ (req'.op \in {"UpdateClients", "RemoveClients"} /\ Len(req'.argp) = 1) =>
        \A i \in 1..Len(cmds') :
            cmds'[i].op = "removeFilter" =>
                LET k    == runCmds(tc, SubSeq(cmds', 1, i - 1))
                    a    == IF req'.op = "UpdateClients" THEN req'.argp[1].client
                            ELSE req'.argp[1]
                    gone == {f \in k.filters :
                                f.parent = cmds'[i].h /\ f.prio = cmds'[i].x + 1}
                IN  /\ Cardinality(gone) = 1
                    /\ \A f \in gone :
                           /\ f.dst = a[1] /\ f.src = a[2]
                           /\ f \in tc.filters
                           /\ a \in DOMAIN g_clients'
                                 => ~(/\ f.parent = rootHTBHandle
                                      /\ f.flow = rootHTBMinor(g_clients'[a].priority))
                    /\ \A f \in k.filters \ gone : f \in Apply(k, cmds'[i]).filters
      ]_vars

\* C16's case: an update that switched the priority of a client with a chain
\* removed its root filter and its base filter while another client was installed
C16_Witness ==
    /\ req.op = "UpdateClients"
    /\ Len(req.argp) = 1
    /\ Cardinality({i \in 1..Len(cmds) : cmds[i].op = "removeFilter"}) = 2
    /\ Cardinality(DOMAIN g_clients) = 2

\* The deepest level a per-client qdisc handle can name
LastLevel == g_numLevels - 1

\* An accepted update of an installed client at its priority, to s stages:
\* when 2*s is below the old chain length (above 2), it issues one removeQdisc,
\* of the qdisc HTBHandle(id, priority, s-1) under the class of level s-1
\* (HTBHandle(id, priority, z) under the level-0 class when s = 0), and no
\* per-client qdisc or class from that level down remains; when 2*s is not
\* below the old chain length it issues none.
ShrinkTo(z) ==
    \A a \in DOMAIN g_clients :
        (/\ req'.op = "UpdateClients"
         /\ Len(req'.argp) = 1
         /\ Accepted(req'.argp[1])
         /\ req'.argp[1].client = a
         /\ req'.argp[1].priority = g_clients[a].priority) =>
            LET id       == g_clients[a].id
                priority == g_clients[a].priority
                oldLen   == g_clients[a].rateLimitLength
                s        == Stages(Len(req'.argp[1].rateLimitRates))
                first    == IF s = 0 THEN z ELSE s - 1
                rq       == {i \in 1..Len(cmds') : cmds'[i].op = "removeQdisc"}
            IN  /\ (oldLen > 2 /\ 2 * s < oldLen) =>
                       /\ Cardinality(rq) = 1
                       /\ \A i \in rq :
                              /\ cmds'[i].x = HTBHandle(id, priority, first)
                              /\ cmds'[i].h = IF s <= 1 THEN HTBBaseHandle(priority)
                                              ELSE HTBHandle(id, priority, s - 2)
                              /\ cmds'[i].m = IF s <= 1 THEN id + 2 ELSE 1
                       /\ \A l \in (IF s = 0 THEN 0 ELSE s - 1)..LastLevel :
                              /\ ~HasQdisc(tc', HTBHandle(id, priority, l))
                              /\ \A c \in tc'.classes : c.handle # HTBHandle(id, priority, l)
                /\ (2 * s >= oldLen) => rq = {}

\* C17: chain shrink at the same priority issues exactly one removeQdisc, of
\* HTBHandle(id, priority, s-1) under the level s-1 class, whenever 2*s is
\* below an old chain length above 2 (s = 0 included, as the claim's "s <= 1"
\* has it), and none when 2*s >= oldLen.
C17_Shrink == [][ShrinkTo(-1)]_vars

\* C17 as the code has it: shrinking to no chain at all (s = 0) removes the
\* qdisc HTBHandle(id, priority, 0) under the level-0 class, the same one as
\* shrinking to one stage; for s >= 1 the target is HTBHandle(id, priority, s-1).
C17_ShrinkAmended == [][ShrinkTo(0)]_vars

\* C17's case: an update at the same priority (no root filter command) cut a
\* chain of three stages to two and removed the qdisc of the third
C17_Witness ==
    /\ req.op = "UpdateClients"
    /\ Len(req.argp) = 1
    /\ Len(req.argp[1].rateLimitRates) \in {3, 4}
    /\ \A i \in 1..Len(cmds) : cmds[i].h # rootHTBHandle
    /\ \E i \in 1..Len(cmds) :
           /\ cmds[i].op = "removeQdisc"
           /\ cmds[i].x = HTBHandle(g_clients[req.argp[1].client].id, req.argp[1].priority, 1)

\* C18: an accepted update with a chain of n values issues, for every level k
\* with 2k < n, exactly one class replace, on HTBBaseHandle(priority):(id+2)
\* for level 0 and on HTBHandle(id, priority, k-1):1 for k >= 1, with
\* rate = rates[2k], burst = bursts[2k], and ceil = rates[2k+1],
\* cburst = bursts[2k+1] when 2k+1 < n, else ceil = rate and cburst = burst;
\* it issues no other class replace. A new client with a chain of 2 values
\* gets one class and no per-client qdisc.
C18_ClassRates ==
    [][ (req'.op = "UpdateClients" /\ Len(req'.argp) = 1 /\ Accepted(req'.argp[1])) =>
        LET a        == req'.argp[1].client
            priority == req'.argp[1].priority
            rates    == req'.argp[1].rateLimitRates
            bursts   == req'.argp[1].rateLimitBursts
            n        == Len(rates)
            id       == g_clients'[a].id
            cls      == {i \in 1..Len(cmds') : cmds'[i].op = "addHTBClass"}
        IN  /\ \A k \in 0..g_numLevels :
                   (2 * k < n) =>
                       LET on == {i \in cls :
                                     /\ cmds'[i].h = IF k = 0 THEN HTBBaseHandle(priority)
                                                     ELSE HTBHandle(id, priority, k - 1)
                                     /\ cmds'[i].m = IF k = 0 THEN id + 2 ELSE 1}
                       IN  /\ Cardinality(on) = 1
                           /\ \A i \in on :
                                  cmds'[i].p =
                                      IF 2 * k + 1 < n
                                      THEN <<rates[2 * k + 1], rates[2 * k + 2],
                                             bursts[2 * k + 1], bursts[2 * k + 2]>>
                                      ELSE <<rates[2 * k + 1], rates[2 * k + 1],
                                             bursts[2 * k + 1], bursts[2 * k + 1]>>
            /\ Cardinality(cls) = Stages(n)
            /\ (a \notin DOMAIN g_clients /\ n = 2) =>
                   /\ \A i \in 1..Len(cmds') : cmds'[i].op # "addHTBQdisc"
                   /\ \E c \in tc'.classes :
                          /\ c.handle = HTBBaseHandle(priority) /\ c.minor = id + 2
                          /\ c.rate = rates[1] /\ c.ceil = rates[2]
                          /\ c.burst = bursts[1] /\ c.cburst = bursts[2]
                   /\ \A l \in 0..LastLevel :
                          /\ ~HasQdisc(tc', HTBHandle(id, priority, l))
                          /\ \A c \in tc'.classes : c.handle # HTBHandle(id, priority, l)
      ]_vars

\* C18's case: an update with a chain of five values issued three class
\* replaces, the last one for a level with a rate and no ceil of its own
C18_Witness ==
    /\ req.op = "UpdateClients"
    /\ Len(req.argp) = 1
    /\ Accepted(req.argp[1])
    /\ Len(req.argp[1].rateLimitRates) = 5
    /\ Cardinality({i \in 1..Len(cmds) : cmds[i].op = "addHTBClass"}) = 3
    /\ \E i \in 1..Len(cmds) :
           /\ cmds[i].op = "addHTBClass"
           /\ cmds[i].p[1] = cmds[i].p[2]

\* The step serves an UpdateClients request of one accepted item (a request
\* takes no time and carries no traffic; its record is the one of the next state)
UpdateStep ==
    /\ now' = now /\ traffic' = traffic
    /\ req'.op = "UpdateClients"
    /\ Len(req'.argp) = 1
    /\ Accepted(req'.argp[1])

\* The client entry of a as updateClient has it after the settling sample: the
\* entry brought up to date by updateSentBytes, zero counters for a new client
Settled(a) ==
    IF a \in DOMAIN g_clients THEN updateSentBytes(tc, g_clients[a], now) ELSE ZeroClient

\* C19: an updateClient call that changes the client's priority (the creation
\* of a client included) returns with prevSentBytes = 0 and with sentBytes and
\* maxSentBytes as the settling sample left them; a call that keeps the
\* priority leaves prevSentBytes as the settling sample left it.
C19_PrevSentBytes ==
    [][ UpdateStep =>
        LET a           == req'.argp[1].client
            oldPriority == IF a \in DOMAIN g_clients THEN g_clients[a].priority
                           ELSE g_numPriorities
        IN  /\ g_clients'[a].sentBytes = Settled(a).sentBytes
            /\ g_clients'[a].maxSentBytes = Settled(a).maxSentBytes
            /\ g_clients'[a].prevSentBytes =
                   IF oldPriority # req'.argp[1].priority THEN 0
                   ELSE Settled(a).prevSentBytes
      ]_vars

\* C19's case: an update just switched the priority (it removed the root
\* filter) of a client that had sent bytes, which it keeps in sentBytes and
\* maxSentBytes with prevSentBytes back at 0
C19_Witness ==
    /\ req.op = "UpdateClients"
    /\ req.at = <<now, traffic>>
    /\ \E i \in 1..Len(cmds) : cmds[i].op = "removeFilter" /\ cmds[i].h = rootHTBHandle
    /\ LET c == g_clients[req.argp[1].client]
       IN  c.sentBytes > 0 /\ c.maxSentBytes > 0 /\ c.prevSentBytes = 0

\* The accounting of an update of the installed client a: the counter of the
\* old leaf class and oldRate * elapsed are added, the sample time is the time
\* of the update, and then priority, rateLimitLength and rate are the new ones
SettledBeforeCommit(a) ==
    LET old  == g_clients[a]
        item == req'.argp[1]
        n    == Len(item.rateLimitRates)
    IN  /\ g_clients'[a].sentBytes = old.sentBytes +
               (getSentBytes(tc, HTBBaseHandle(old.priority), old.id + 2) - old.prevSentBytes)
        /\ g_clients'[a].maxSentBytes = old.maxSentBytes + old.rate * (now - old.lastSentBytesTime)
        /\ g_clients'[a].lastSentBytesTime = now
        /\ g_clients'[a].priority = item.priority
        /\ g_clients'[a].rateLimitLength = n
        /\ g_clients'[a].rate = IF n > 0 THEN item.rateLimitRates[1] ELSE g_maxRate

\* C20: updateClient on an existing client settles the byte accounting before
\* it commits the new fields: sentBytes takes the counter of the old leaf class
\* HTBBaseHandle(oldPriority):(id+2), maxSentBytes grows by oldRate * elapsed,
\* the time up to the update is accounted for (so the new rate is never
\* applied to it), and then priority, rateLimitLength and rate are the new ones.
C20_Settled ==
    [][ UpdateStep =>
        \A a \in DOMAIN g_clients : req'.argp[1].client = a => SettledBeforeCommit(a)
      ]_vars

\* The same for a client that had a chain before the update
SettledWithChain ==
    [][ UpdateStep =>
        \A a \in DOMAIN g_clients :
            (req'.argp[1].client = a /\ g_clients[a].rateLimitLength > 0)
                => SettledBeforeCommit(a)
      ]_vars

\* C21: between requests every entry of the client table has an even
\* rateLimitLength of at most (L+1)*2, whatever the lengths of the lists of the
\* UpdateClients requests received.
C21_EvenLength ==
    \A a \in DOMAIN g_clients :
        /\ g_clients[a].rateLimitLength % 2 = 0
        /\ g_clients[a].rateLimitLength <= (g_numLevels + 1) * 2

\* The bound alone: no entry has a rateLimitLength above (L+1)*2
LengthBounded ==
    \A a \in DOMAIN g_clients : g_clients[a].rateLimitLength <= (g_numLevels + 1) * 2

\* The per-client qdisc handles of the client of id: HTBHandle(id, p, l) for a
\* priority p below P and a level l of at most L-1
BlockOf(id) ==
    {HTBHandle(id, p, l) : p \in 0..(g_numPriorities - 1), l \in 0..(g_numLevels - 1)}

\* C22: the qdisc handles rootHTBHandle, DSMARKHandle(p), HTBBaseHandle(p)
\* (p < P) and HTBHandle(id, p, l) (p < P, l < L) are pairwise distinct for
\* distinct arguments, and so are the root minors rootHTBMinor(p) (p < P) and
\* rootHTBMinorHelper(p) (p <= P); and every per-client qdisc that a request
\* with an accepted chain adds or removes has a handle HTBHandle(id, p, l) of
\* the client's own id with l <= L-1.
C22_Disjoint ==
    [][ /\ proc'.pc = "handles" =>
               (proc'.trail[1] # proc'.trail[2] => proc'.trail[3] # proc'.trail[4])
        /\ (proc'.pc = "svc_run" /\ req'.op \in {"UpdateClients", "RemoveClients"}
               /\ Len(req'.argp) = 1) =>
               LET a  == IF req'.op = "UpdateClients" THEN req'.argp[1].client
                         ELSE req'.argp[1]
                   id == IF a \in DOMAIN g_clients THEN g_clients[a].id
                         ELSE g_clients'[a].id
               IN  \A i \in 1..Len(cmds') :
                       cmds'[i].op \in {"addHTBQdisc", "removeQdisc"} =>
                           /\ cmds'[i].x \in BlockOf(id)
                           /\ \A j \in (0..MaxId) \ {id} : cmds'[i].x \notin BlockOf(j)
      ]_vars

\* C22's case: HTBHandle was evaluated for the last level of one id's last
\* priority and for the first level of the next id's first priority
C22_Witness ==
    /\ proc.pc = "handles"
    /\ proc.trail[1] = [f |-> "HTBHandle", id |-> 0, priority |-> g_numPriorities - 1,
                         level |-> g_numLevels - 1]
    /\ proc.trail[2] = [f |-> "HTBHandle", id |-> 1, priority |-> 0, level |-> 0]

\* The command c is well-formed against the kernel k: a qdisc is added under
\* an existing class without a child qdisc, a class is set in an existing HTB
\* qdisc, a filter is added for an existing target class, a qdisc or filter
\* that is removed exists, and a class that is removed exists with no filter
\* pointing to it and no child qdisc attached
WellFormed(k, c) ==
    CASE c.op = "addHTBQdisc" ->
             /\ HasClass(k, c.h, c.m)
             /\ ~ \E q \in k.qdiscs : q.parent = <<c.h, c.m>>
             /\ ~ HasQdisc(k, c.x)
      [] c.op = "addHTBClass" ->
             \E q \in k.qdiscs : q.handle = c.h /\ q.kind = "htb"
      [] c.op = "addFilter" ->
             HasQdisc(k, c.h) /\ HasClass(k, c.h, c.m)
      [] c.op = "removeQdisc" ->
             \E q \in k.qdiscs : q.handle = c.x /\ q.parent = <<c.h, c.m>>
      [] c.op = "removeFilter" ->
             \E f \in k.filters : f.parent = c.h /\ f.prio = c.x + 1
      [] c.op = "removeClass" ->
             /\ HasClass(k, c.h, c.m)
             /\ ~ \E f \in k.filters : f.parent = c.h /\ f.flow = c.m
             /\ ~ \E q \in k.qdiscs : q.parent = <<c.h, c.m>>
      [] OTHER -> TRUE

\* The commands cs from the i-th on are each well-formed against the kernel
\* as the commands before it left it, k being the kernel before the i-th
RECURSIVE WellFormedFrom(_, _, _)
WellFormedFrom(k, cs, i) ==
    \/ i > Len(cs)
    \/ /\ WellFormed(k, cs[i])
       /\ WellFormedFrom(Apply(k, cs[i]), cs, i + 1)

\* C23: in any sequence of accepted UpdateClients and RemoveClients requests,
\* every TC command of updateClient is well-formed against the kernel state at
\* the moment it is issued.
C23_WellFormed ==
    [][ (req'.op \in {"UpdateClients", "RemoveClients"} /\ Len(req'.argp) = 1) =>
            WellFormedFrom(tc, cmds', 1)
      ]_vars

\* C23's case: one update issued every kind of command (it switched the
\* priority of a client whose chain had a per-client qdisc, building a new
\* chain with a qdisc), with another client installed
C23_Witness ==
    /\ req.op = "UpdateClients"
    /\ Len(req.argp) = 1
    /\ {cmds[i].op : i \in 1..Len(cmds)} =
           {"addHTBQdisc", "addHTBClass", "addFilter", "removeQdisc", "removeFilter", "removeClass"}
    /\ Cardinality(DOMAIN g_clients) = 2

\* C24: currSentBytes - prevSentBytes never wraps: for every client that
\* updateSentBytes samples (one with a chain), prevSentBytes is at most the
\* counter of its current leaf class HTBBaseHandle(priority):(id+2), also
\* after the class was removed and created again at the same priority; so
\* sentBytes never holds a wrapped (here: negative) value.
C24_NoWrap ==
    \A a \in DOMAIN g_clients :
        /\ g_clients[a].rateLimitLength > 0 =>
               g_clients[a].prevSentBytes <=
                   getSentBytes(tc, HTBBaseHandle(g_clients[a].priority), HTBMinor(g_clients[a].id, 0))
        /\ g_clients[a].sentBytes >= 0

\* The same while the client's chain has never been taken away at an
\* unchanged priority: its leaf class is the one prevSentBytes was read from
NoWrapWhileClassKept ==
    [][ \A a \in DOMAIN g_clients \cap DOMAIN g_clients' :
            (/\ g_clients[a].rateLimitLength > 0
             /\ g_clients[a].prevSentBytes <=
                    getSentBytes(tc, HTBBaseHandle(g_clients[a].priority), HTBMinor(g_clients[a].id, 0))
             /\ g_clients'[a].rateLimitLength > 0)
            => g_clients'[a].prevSentBytes <=
                   getSentBytes(tc', HTBBaseHandle(g_clients'[a].priority), HTBMinor(g_clients'[a].id, 0))
      ]_vars

\* What the sample of an update of the installed client a adds to
\* maxSentBytes: the old rate times the time since the last sample for a
\* client with a chain, nothing for a client without one
SampleAmount(a) ==
    g_clients'[a].maxSentBytes - g_clients[a].maxSentBytes =
        IF g_clients[a].rateLimitLength > 0
        THEN g_clients[a].rate * (now - g_clients[a].lastSentBytesTime)
        ELSE 0

\* What the next sample of the client entry c, taken at time t, adds to maxSentBytes
NextAmount(c, t) == c.rate * ConvertTimeToSeconds(t - c.lastSentBytesTime)

\* C25: the amount a sample adds to maxSentBytes is the client's rate during
\* the elapsed interval times its length: an update samples at the old rate
\* over the time since the last sample, and after an update that leaves the
\* client with a chain, the next sample (at any later time t) adds the new
\* rate times t - now only, so no allowance is credited at the new chain's
\* rate for time before the chain was installed or without a chain.
C25_Allowance ==
    [][ UpdateStep =>
        \A a \in DOMAIN g_clients :
            req'.argp[1].client = a =>
                /\ SampleAmount(a)
                /\ g_clients'[a].rateLimitLength > 0 =>
                       \A t \in now..MaxTime :
                           NextAmount(g_clients'[a], t) = g_clients'[a].rate * (t - now)
      ]_vars

\* The amounts the samples of updates add, taken alone
SampleAmounts ==
    [][ UpdateStep => \A a \in DOMAIN g_clients : req'.argp[1].client = a => SampleAmount(a) ]_vars

====
